---- MODULE Spec2Model ----
(***************************************************************************)
(* Model of the dj dataset registry: the Journalist (registry store with  *)
(* its SQLAlchemy session and transaction scope), the FileRecord          *)
(* before_insert / before_update listener that derives the storage URI,   *)
(* and the DataLoader ingestion batch.                                     *)
(*                                                                         *)
(* Strings whose content is inspected by the code (tag names, file names) *)
(* are sequences of one-character strings; all other strings are atoms.   *)
(***************************************************************************)
EXTENDS Integers, Sequences, FiniteSets, TLC

(* ---------------------------------------------------------------------- *)
(* Bounds                                                                  *)
(* ---------------------------------------------------------------------- *)
MaxFiles == 2

(* ---------------------------------------------------------------------- *)
(* Input universes                                                         *)
(* ---------------------------------------------------------------------- *)
DataStage == {"raw", "staged", "processed", "published"}
Domains == {"d1", "d2"}
DatasetNames == {"n1"}
Hashes == {"h1", "h2"}
Filenames == { <<"a", ".", "t">>, <<"a", ".", "d">> }
TagNames == { <<" ", "a">>, <<"A", " ">>, <<"b">> }
TagLists == { <<>>, <<<<"A", " ">>, <<" ", "a">>>>, <<<<"b">>>> }
LocalSources == {"/in/a.t", "/in/a.d", "/in/b.t"}
RemoteSources == {"s3://src/a.t"}
ModelsModules == {"dj.registry.models", "dj.actions.registry.models"}
Constraints == {"files.s3uri", "unique_data_file"}

MimeOf(sha256) == IF sha256 = "h1" THEN "text/plain" ELSE "image/png"

cfg_s3bucket == "bkt"
cfg_s3prefix == "dj"

NoUri == <<>>
BogusUri == <<"caller">>
NoneValue == "None"
NoDataset == [id |-> 0, domain |-> "", name |-> ""]
NoId == 0

(* ---------------------------------------------------------------------- *)
(* String helpers                                                          *)
(* ---------------------------------------------------------------------- *)
Range(s) == { s[i] : i \in 1..Len(s) }

lower_char(c) ==
    CASE c = "A" -> "a" [] c = "B" -> "b" [] c = "T" -> "t" [] OTHER -> c

lower(s) == [i \in 1..Len(s) |-> lower_char(s[i])]

RECURSIVE lstrip(_)
lstrip(s) == IF s # <<>> /\ Head(s) = " " THEN lstrip(Tail(s)) ELSE s

RECURSIVE rstrip(_)
rstrip(s) ==
    IF s # <<>> /\ s[Len(s)] = " " THEN rstrip(SubSeq(s, 1, Len(s) - 1)) ELSE s

strip(s) == rstrip(lstrip(s))

(* The tag name as given, neither lower-cased nor stripped.                *)
raw_tag_name(tag_name) == tag_name

normalize_tag_name(tag_name) == strip(lower(tag_name))

(* os.path.splitext(p)[1] for a base name: the suffix from the last dot,   *)
(* unless only dots precede it.                                            *)
splitext_ext(p) ==
    LET dots == { i \in 1..Len(p) : p[i] = "." } IN
    IF dots = {} THEN <<>>
    ELSE LET dotIndex == CHOOSE i \in dots : \A j \in dots : j <= i IN
         IF \E k \in 1..(dotIndex - 1) : p[k] # "."
         THEN SubSeq(p, dotIndex, Len(p))
         ELSE <<>>

(* ---------------------------------------------------------------------- *)
(* Key Resolver and the FileRecord listeners                               *)
(* ---------------------------------------------------------------------- *)
Omitted == "<omitted>"
MissingField == <<"ValueError: Missing required field for S3 URI">>

resolve_data_s3uri(s3bucket, s3prefix, domain, dataset_name, stage, mime_type, sha256, ext) ==
    <<s3bucket, s3prefix, domain, dataset_name, stage, mime_type, sha256, ext>>

ext_of(target) == splitext_ext(target.filename)

(* dj/registry/models.py: validates the dataset fields, then passes all    *)
(* eight inputs.                                                           *)
registry_validate_and_compute_s3uri(target, dataset) ==
    IF target.s3bucket = "" \/ dataset = NoDataset
       \/ dataset.domain = "" \/ dataset.name = ""
    THEN MissingField
    ELSE resolve_data_s3uri(target.s3bucket, target.s3prefix, dataset.domain,
                            dataset.name, target.stage, target.mime_type,
                            target.sha256, ext_of(target))

(* dj/actions/registry/models.py: passes six inputs, no domain and no      *)
(* dataset name.                                                           *)
actions_validate_and_compute_s3uri(target, dataset) ==
    resolve_data_s3uri(target.s3bucket, target.s3prefix, Omitted,
                       Omitted, target.stage, target.mime_type,
                       target.sha256, ext_of(target))

(* A listener that leaves the attribute as the caller set it.              *)
keep_caller_s3uri(m, target, dataset) == target.s3uri

validate_and_compute_s3uri(m, target, dataset) ==
    IF m = "dj.registry.models"
    THEN registry_validate_and_compute_s3uri(target, dataset)
    ELSE actions_validate_and_compute_s3uri(target, dataset)

(* ---------------------------------------------------------------------- *)
(* Tables                                                                  *)
(* ---------------------------------------------------------------------- *)
EmptyStore == [datasets |-> {}, files |-> {}, tags |-> {}]

MaxOf(S) == IF S = {} THEN 0 ELSE CHOOSE x \in S : \A y \in S : y <= x

(* Integer primary key: one more than the largest id in the table.         *)
NextId(rows) == MaxOf({ r.id : r \in rows }) + 1

DatasetById(store, id) == CHOOSE d \in store.datasets : d.id = id

FileById(store, id) == CHOOSE f \in store.files : f.id = id

HasDuplicates(seq) == \E i, j \in 1..Len(seq) : i < j /\ seq[i] = seq[j]

(* UniqueConstraint unique_data_file of FileRecord.                        *)
unique_data_file(f) == <<f.dataset_id, f.s3bucket, f.s3prefix, f.stage, f.sha256>>

(* The uniqueness constraints an INSERT of row f into files would violate. *)
ViolatedBy(files, f) ==
    {c \in Constraints :
        \/ c = "files.s3uri" /\ \E g \in files : g.s3uri = f.s3uri
        \/ c = "unique_data_file"
           /\ \E g \in files : unique_data_file(g) = unique_data_file(f)}

(* Session.flush(): before_update on the dirty records, then before_insert *)
(* and INSERT of each pending record in order.  rep is the constraint the  *)
(* backend names when an INSERT violates both.                             *)
FlushUpdates(m, store, dirtyIds) ==
    [store EXCEPT !.files =
        { IF f.id \in dirtyIds
          THEN [f EXCEPT !.s3uri =
                   validate_and_compute_s3uri(m, f, DatasetById(store, f.dataset_id))]
          ELSE f : f \in store.files }]

(* before_insert for a pending target: the listener sets s3uri; the INSERT *)
(* gives the row its id.                                                   *)
before_insert(m, store, target) ==
    [target EXCEPT
        !.id = NextId(store.files),
        !.s3uri = validate_and_compute_s3uri(
                      m, target, DatasetById(store, target.dataset_id))]

(* INSERT of one files row (and of its file_tags rows).                    *)
insert_file(store, row, rep) ==
    LET bad == ViolatedBy(store.files, row) IN
    IF row.s3uri = MissingField THEN [err |-> "ValueError", store |-> store]
    ELSE IF bad # {}
    THEN [err |-> IF rep \in bad THEN rep ELSE CHOOSE c \in bad : TRUE,
          store |-> store]
    ELSE IF HasDuplicates(row.tags) THEN [err |-> "file_tags", store |-> store]
    ELSE [err |-> "none", store |-> [store EXCEPT !.files = @ \cup {row}]]

RECURSIVE FlushInserts(_, _, _, _)
FlushRest(m, r, pend, rep) ==
    IF r.err # "none" THEN r ELSE FlushInserts(m, r.store, pend, rep)

FlushInserts(m, store, pend, rep) ==
    IF pend = <<>> THEN [err |-> "none", store |-> store]
    ELSE FlushRest(m, insert_file(store, before_insert(m, store, Head(pend)), rep),
                   Tail(pend), rep)

flush(m, store, pend, dirtyIds, rep) ==
    IF \E f \in store.files : HasDuplicates(f.tags)
    THEN [err |-> "file_tags", store |-> store]
    ELSE FlushInserts(m, FlushUpdates(m, store, dirtyIds), pend, rep)

(* ---------------------------------------------------------------------- *)
(* Journalist: the session and its operations.                             *)
(* A journalist value j is [db, session, pending, dirty, inactive]:        *)
(*   db       the committed tables,                                        *)
(*   session  the tables as the open transaction sees them,                *)
(*   pending  FileRecord objects added and not yet flushed,                *)
(*   dirty    ids of persistent FileRecords with an assigned attribute,    *)
(*   inactive a flush failed and rollback() has not been called yet.       *)
(* Every operation yields [j, err, ret].                                   *)
(* ---------------------------------------------------------------------- *)
NoErr == [type |-> "none", orig |-> ""]
IntegrityError(constraint) == [type |-> "IntegrityError", orig |-> constraint]
PendingRollbackError == [type |-> "PendingRollbackError", orig |-> ""]
DatasetExist == [type |-> "DatasetExist", orig |-> ""]
FileNotFoundError == [type |-> "FileNotFoundError", orig |-> ""]
FileExistsError == [type |-> "FileExistsError", orig |-> ""]
ValueError(msg) == [type |-> "ValueError", orig |-> msg]
SimulatedFailure == [type |-> "RuntimeError", orig |-> ""]

NewJournalist(store) ==
    [db |-> store, session |-> store, pending |-> <<>>, dirty |-> {},
     inactive |-> FALSE]

Result(j, err, ret) == [j |-> j, err |-> err, ret |-> ret]

(* Session.rollback(): drop everything not committed.                      *)
session_rollback(j) == NewJournalist(j.db)

(* State of the session after a flush raised: the database transaction is  *)
(* rolled back and the session refuses work until rollback() is called.    *)
FailedFlush(j) == [NewJournalist(j.db) EXCEPT !.inactive = TRUE]

(* The flush a query runs first (autoflush), and the one inside commit().  *)
flushed(j, r) ==
    IF r.err = "ValueError"
    THEN Result(FailedFlush(j), ValueError("Missing required field"), NoId)
    ELSE IF r.err # "none"
    THEN Result(FailedFlush(j), IntegrityError(r.err), NoId)
    ELSE Result([j EXCEPT !.session = r.store, !.pending = <<>>, !.dirty = {}],
                NoErr, NoId)

session_flush(m, j, rep) ==
    IF j.inactive THEN Result(j, PendingRollbackError, NoId)
    ELSE flushed(j, flush(m, j.session, j.pending, j.dirty, rep))

(* Session.commit(): flush, then COMMIT.                                   *)
committed(f) ==
    IF f.err # NoErr THEN f
    ELSE Result([f.j EXCEPT !.db = f.j.session], NoErr, NoId)

session_commit(m, j, rep) == committed(session_flush(m, j, rep))

(* The value a call returns after its commit: ret, or none with the error. *)
returning(c, ret, none) ==
    IF c.err # NoErr THEN Result(c.j, c.err, none) ELSE Result(c.j, NoErr, ret)

(* Journalist.get_dataset: ret is the row or NoDataset.                    *)
query_dataset(f, domain, name) ==
    IF f.err # NoErr THEN Result(f.j, f.err, NoDataset)
    ELSE LET found == { d \in f.j.session.datasets :
                          d.name = name /\ d.domain = domain } IN
         Result(f.j, NoErr,
                IF found = {} THEN NoDataset ELSE CHOOSE d \in found : TRUE)

get_dataset(m, j, domain, name, rep) ==
    query_dataset(session_flush(m, j, rep), domain, name)

(* A datasets table without the unique_dataset constraint.                 *)
insert_unconstrained(m, j, domain, name, rep) ==
    IF j.inactive THEN Result(j, PendingRollbackError, NoDataset)
    ELSE LET dataset == [id |-> NextId(j.session.datasets),
                         domain |-> domain, name |-> name]
         IN  returning(session_commit(
                           m, [j EXCEPT !.session.datasets = @ \cup {dataset}], rep),
                       dataset, NoDataset)

(* Journalist.create_dataset: session.add(dataset); session.commit().      *)
create_dataset(m, j, domain, name, rep) ==
    IF j.inactive THEN Result(j, PendingRollbackError, NoDataset)
    ELSE IF \E d \in j.session.datasets : d.name = name /\ d.domain = domain
    THEN Result(FailedFlush(j), IntegrityError("unique_dataset"), NoDataset)
    ELSE LET dataset == [id |-> NextId(j.session.datasets),
                         domain |-> domain, name |-> name]
         IN  returning(session_commit(
                           m, [j EXCEPT !.session.datasets = @ \cup {dataset}], rep),
                       dataset, NoDataset)

(* add_dataset that creates without looking at what get_dataset returned.  *)
create_without_lookup(m, g, domain, name, exists_ok, rep) ==
    IF g.err # NoErr THEN g ELSE create_dataset(m, g.j, domain, name, rep)

(* Journalist.add_dataset: get-or-create; g is what get_dataset returned.  *)
get_or_create_dataset(m, g, domain, name, exists_ok, rep) ==
    IF g.err # NoErr THEN g
    ELSE IF g.ret = NoDataset THEN create_dataset(m, g.j, domain, name, rep)
    ELSE IF ~exists_ok THEN Result(g.j, DatasetExist, NoDataset)
    ELSE g

add_dataset(m, j, domain, name, exists_ok, rep) ==
    get_or_create_dataset(m, get_dataset(m, j, domain, name, rep),
                          domain, name, exists_ok, rep)

(* Journalist.get_tag: ret is the tag id or NoId.                          *)
query_tag(f, normalized_name) ==
    IF f.err # NoErr THEN f
    ELSE LET found == { t \in f.j.session.tags : t.name = normalized_name } IN
         Result(f.j, NoErr,
                IF found = {} THEN NoId ELSE (CHOOSE t \in found : TRUE).id)

get_tag(m, j, tag_name, rep) ==
    query_tag(session_flush(m, j, rep), normalize_tag_name(tag_name))

(* create_tag that commits whatever the commit argument is.                *)
commit_each_tag(m, j, tag_name, commit, rep) ==
    LET tag == [id |-> NextId(j.session.tags), name |-> normalize_tag_name(tag_name)]
    IN  returning(session_commit(m, [j EXCEPT !.session.tags = @ \cup {tag}], rep),
                  tag.id, NoId)

(* Journalist.create_tag.                                                  *)
create_tag(m, j, tag_name, commit, rep) ==
    LET tag == [id |-> NextId(j.session.tags), name |-> normalize_tag_name(tag_name)]
        j1 == [j EXCEPT !.session.tags = @ \cup {tag}]
    IN  IF commit
        THEN returning(session_commit(m, j1, rep), tag.id, NoId)
        ELSE Result(j1, NoErr, tag.id)

(* Journalist.add_tag: get-or-create by normalized name; g is what get_tag *)
(* returned.                                                               *)
get_or_create_tag(m, g, tag_name, commit, rep) ==
    IF g.err # NoErr THEN g
    ELSE IF g.ret = NoId THEN create_tag(m, g.j, tag_name, commit, rep)
    ELSE g

add_tag(m, j, tag_name, commit, rep) ==
    get_or_create_tag(m, get_tag(m, j, tag_name, rep), tag_name, commit, rep)

(* The loop "for tag_name in tags: add_tag(tag_name.strip(), commit=False)" *)
(* of add_file_record; a is what add_tag returned for the head of tags and *)
(* ret is the list of tag ids.                                             *)
RECURSIVE add_tags(_, _, _, _, _)
add_tags_next(m, a, tags, acc, rep) ==
    IF a.err # NoErr THEN Result(a.j, a.err, acc)
    ELSE add_tags(m, a.j, Tail(tags), Append(acc, a.ret), rep)

add_tags(m, j, tags, acc, rep) ==
    IF tags = <<>> THEN Result(j, NoErr, acc)
    ELSE add_tags_next(m, add_tag(m, j, strip(Head(tags)), FALSE, rep),
                       tags, acc, rep)

(* The end of add_file_record: FileRecord(..., tags=tag_records) and       *)
(* session.add.  The s3uri column is left unset; ret is the index of the   *)
(* staged object.                                                          *)
session_add(t, datafile) ==
    IF t.err # NoErr THEN Result(t.j, t.err, NoId)
    ELSE Result([t.j EXCEPT !.pending = Append(@, [datafile EXCEPT !.tags = t.ret])],
                NoErr, Len(t.j.pending) + 1)

(* Journalist.add_file_record.                                             *)
add_file_record(m, j, dataset, s3bucket, s3prefix, filename, sha256, mime_type, stage, tags, rep) ==
    session_add(add_tags(m, j, tags, <<>>, rep),
                [id |-> NoId, dataset_id |-> dataset.id,
                 s3bucket |-> s3bucket, s3prefix |-> s3prefix,
                 stage |-> stage, filename |-> filename,
                 sha256 |-> sha256, mime_type |-> mime_type,
                 s3uri |-> NoUri, tags |-> <<>>])

(* Journalist.get_file_record(file_id): ret is the file id or NoId.        *)
query_file(f, file_id) ==
    IF f.err # NoErr THEN f
    ELSE Result(f.j, NoErr,
                IF \E r \in f.j.session.files : r.id = file_id
                THEN file_id ELSE NoId)

get_file_record(m, j, file_id, rep) ==
    IF file_id = NoId
    THEN Result(j, ValueError("get_file_record requires"), NoId)
    ELSE query_file(session_flush(m, j, rep), file_id)

(* file_record.tags.append(tag) without the membership test.               *)
always_append(j, file_record, tag) ==
    [j EXCEPT !.session.files =
        (@ \ {file_record}) \cup {[file_record EXCEPT !.tags = Append(@, tag)]}]

(* "if tag not in file_record.tags: file_record.tags.append(tag)".         *)
append_tag(j, file_record, tag) ==
    IF tag \notin Range(file_record.tags)
    THEN [j EXCEPT !.session.files =
            (@ \ {file_record}) \cup {[file_record EXCEPT !.tags = Append(@, tag)]}]
    ELSE j

(* The loop of add_tags2file over tag_names for the record file_id; a is   *)
(* what add_tag returned for the head of tag_names.                        *)
RECURSIVE tag_loop(_, _, _, _, _)
tag_loop_next(m, a, file_id, tag_names, rep) ==
    IF a.err # NoErr THEN Result(a.j, a.err, NoId)
    ELSE tag_loop(m, append_tag(a.j, FileById(a.j.session, file_id), a.ret),
                  file_id, Tail(tag_names), rep)

tag_loop(m, j, file_id, tag_names, rep) ==
    IF tag_names = <<>> THEN Result(j, NoErr, file_id)
    ELSE tag_loop_next(m, add_tag(m, j, Head(tag_names), FALSE, rep),
                       file_id, tag_names, rep)

(* Journalist.add_tags2file; g is what get_file_record returned.           *)
tag_file(m, g, file_id, tag_names, rep) ==
    IF g.err # NoErr THEN g
    ELSE IF g.ret = NoId THEN Result(g.j, FileNotFoundError, NoId)
    ELSE tag_loop(m, g.j, file_id, tag_names, rep)

add_tags2file(m, j, file_id, tag_names, rep) ==
    tag_file(m, get_file_record(m, j, file_id, rep), file_id, tag_names, rep)

(* Assignment to the s3uri attribute of a FileRecord the caller holds:     *)
(* a persistent record (by id) becomes dirty, a staged one is changed in   *)
(* place.                                                                  *)
assign_s3uri(j, persistent, key, uri) ==
    IF persistent
    THEN LET file_record == FileById(j.session, key) IN
         [j EXCEPT !.session.files =
                       (@ \ {file_record}) \cup {[file_record EXCEPT !.s3uri = uri]},
                   !.dirty = @ \cup {key}]
    ELSE [j EXCEPT !.pending[key].s3uri = uri]

(* ---------------------------------------------------------------------- *)
(* State                                                                   *)
(* ---------------------------------------------------------------------- *)
VARIABLES
    models,      \* the models module whose listener is registered
    journalist,  \* the Journalist's session and the committed tables
    txn,         \* TRUE inside a "with journalist.transaction()" block
    snapshot,    \* history: the committed tables when the block was entered
    last,        \* history: the last call, its arguments, error and result
    load,        \* DataLoader.load: position, configuration and locals
    probe,       \* inputs and outputs of the listener applied as a function
    fetch        \* DataFetcher.fetch: position, configuration, locals, files

vars == <<models, journalist, txn, snapshot, last, load, probe, fetch>>

Call(op, args, err, ret) == [op |-> op, args |-> args, err |-> err, ret |-> ret]

NoLoad ==
    [pc |-> "idle", cfg |-> <<>>, datafiles |-> {}, attempted |-> {},
     processed |-> {}, dataset_record |-> NoDataset, files0 |-> {},
     add_dataset_calls |-> 0, tmpfiles |-> {}, err |-> NoErr, ret |-> NoneValue]

NoFile == [written |-> FALSE, path |-> <<>>, data |-> {}]

NoTagsArg == [kind |-> "absent", value |-> <<>>]

NoFetch ==
    [pc |-> "idle", tags_arg |-> NoTagsArg, cfg |-> <<>>, backend |-> "sqlite", rows |-> {},
     file_records |-> {}, export |-> NoFile, attempted |-> {},
     downloaded |-> {}, err |-> NoErr]

ProbeInputs ==
    [s3bucket : {"bkt", "bkt2"}, s3prefix : {"dj", "alt"}, domain : Domains,
     dataset_name : {"n1", "n2"}, stage : {"raw", "staged"},
     mime_type : {"text/plain", "image/png"}, sha256 : Hashes,
     filename : { <<"a", ".", "t">>, <<"a", ".", "d">>, <<".", "t">> }]

NoProbe ==
    LET x == CHOOSE i \in ProbeInputs : TRUE IN
    [set |-> FALSE, x |-> x, y |-> x, ux |-> NoUri, uy |-> NoUri]

InitWith(modules) ==
    /\ models \in modules
    /\ journalist = NewJournalist(EmptyStore)
    /\ txn = FALSE
    /\ snapshot = EmptyStore
    /\ last = Call("init", <<>>, NoErr, NoId)
    /\ load = NoLoad
    /\ probe = NoProbe
    /\ fetch = NoFetch

Init == InitWith(ModelsModules)

(* An exception raised inside the with block leaves it through the except  *)
(* clause of Journalist.transaction: rollback, then re-raise.              *)
Return(op, args, r) ==
    /\ last' = Call(op, args, r.err, r.ret)
    /\ IF txn /\ r.err # NoErr
       THEN journalist' = session_rollback(r.j) /\ txn' = FALSE
       ELSE journalist' = r.j /\ txn' = txn
    /\ UNCHANGED <<models, snapshot, load, probe, fetch>>

StagedCount(j) == Cardinality(j.session.files) + Len(j.pending)

(* Journalist.transaction: entering the block.                             *)
EnterTransaction(history) ==
    /\ ~txn
    /\ txn' = TRUE
    /\ snapshot' = IF history THEN journalist.db ELSE snapshot
    /\ last' = Call("transaction.enter", <<>>, NoErr, NoId)
    /\ UNCHANGED <<models, journalist, load, probe, fetch>>

(* Journalist.transaction: the block ends normally, commit; a failed       *)
(* commit is rolled back and re-raised.                                    *)
(* An except clause that re-raises without session.rollback().             *)
raise_without_rollback(c) == c

reraise(c) ==
    IF c.err # NoErr THEN Result(session_rollback(c.j), c.err, NoId) ELSE c

transaction_exit(m, j, rep) == reraise(session_commit(m, j, rep))

(* History: the session holds a FileRecord whose s3uri the caller set.     *)
CallerUri(j) ==
    j.dirty # {} \/ \E i \in 1..Len(j.pending) : j.pending[i].s3uri # NoUri

ExitTransaction ==
    /\ txn
    /\ \E rep \in Constraints :
         LET c == transaction_exit(models, journalist, rep) IN
         /\ journalist' = c.j
         /\ last' = Call("transaction", <<CallerUri(journalist)>>, c.err, NoId)
    /\ txn' = FALSE
    /\ UNCHANGED <<models, snapshot, load, probe, fetch>>

(* Journalist.transaction: the block raises.                               *)
RaiseInTransaction ==
    /\ txn
    /\ journalist' = session_rollback(journalist)
    /\ last' = Call("transaction", <<>>, SimulatedFailure, NoId)
    /\ txn' = FALSE
    /\ UNCHANGED <<models, snapshot, load, probe, fetch>>

CreateDataset(domains) ==
    \E domain \in domains, name \in DatasetNames, rep \in Constraints :
        Return("create_dataset", <<domain, name>>,
               create_dataset(models, journalist, domain, name, rep))

AddDataset(domains) ==
    \E domain \in domains, name \in DatasetNames, exists_ok \in BOOLEAN,
       rep \in Constraints :
        Return("add_dataset", <<domain, name, exists_ok>>,
               add_dataset(models, journalist, domain, name, exists_ok, rep))

AddTag ==
    \E tag_name \in TagNames, commit \in BOOLEAN, rep \in Constraints :
        /\ ~commit => txn
        /\ Return("add_tag", <<tag_name>>,
                  add_tag(models, journalist, tag_name, commit, rep))

AddFileRecord(filenames, hashes, taglists) ==
    \E dataset \in journalist.session.datasets, filename \in filenames,
       sha256 \in hashes, tags \in taglists, rep \in Constraints :
        /\ txn
        /\ StagedCount(journalist) < MaxFiles
        /\ Return("add_file_record", <<>>,
                  add_file_record(models, journalist, dataset, cfg_s3bucket,
                                  cfg_s3prefix, filename, sha256, MimeOf(sha256),
                                  "raw", tags, rep))

AddTags2File ==
    \E file_id \in 0..MaxFiles, tag_names \in TagLists, rep \in Constraints :
        /\ txn
        /\ Return("add_tags2file", <<file_id, tag_names>>,
                  add_tags2file(models, journalist, file_id, tag_names, rep))

AssignS3uri ==
    /\ txn
    /\ ~journalist.inactive
    /\ \/ \E f \in journalist.session.files :
              journalist' = assign_s3uri(journalist, TRUE, f.id, BogusUri)
       \/ \E i \in 1..Len(journalist.pending) :
              journalist' = assign_s3uri(journalist, FALSE, i, BogusUri)
    /\ last' = Call("assign_s3uri", <<>>, NoErr, NoId)
    /\ UNCHANGED <<models, txn, snapshot, load, probe, fetch>>

(* The registry store used through the Journalist alone.                   *)
Next ==
    \/ EnterTransaction(TRUE)
    \/ ExitTransaction
    \/ RaiseInTransaction
    \/ CreateDataset(Domains)
    \/ AddDataset(Domains)
    \/ AddFileRecord(Filenames, {"h1"}, {<<>>})
    \/ AssignS3uri

Spec == Init /\ [][Next]_vars

(* Tags and tagged files in one dataset.                                   *)
NextTags ==
    \/ EnterTransaction(FALSE)
    \/ ExitTransaction
    \/ RaiseInTransaction
    \/ AddDataset({"d1"})
    \/ AddTag
    \/ AddFileRecord({<<"a", ".", "t">>}, Hashes, TagLists)
    \/ AddTags2File

(* journalist.py imports dj.actions.registry.models.                       *)
InitTags == InitWith({"dj.actions.registry.models"})

SpecTags == InitTags /\ [][NextTags]_vars

(* ---------------------------------------------------------------------- *)
(* DataLoader                                                              *)
(* ---------------------------------------------------------------------- *)
IsRemote(datafile_src) == datafile_src \in RemoteSources

(* FileInspector(local_path).metadata of each source: the base name and    *)
(* the digest and MIME type of the content.                                *)
Metadata(datafile_src) ==
    CASE datafile_src = "/in/a.t" ->
           [filename |-> <<"a", ".", "t">>, sha256 |-> "h1", mime_type |-> MimeOf("h1")]
      [] datafile_src = "/in/a.d" ->
           [filename |-> <<"a", ".", "d">>, sha256 |-> "h1", mime_type |-> MimeOf("h1")]
      [] datafile_src = "/in/b.t" ->
           [filename |-> <<"b", ".", "t">>, sha256 |-> "h2", mime_type |-> MimeOf("h2")]
      [] OTHER ->
           [filename |-> <<"a", ".", "t">>, sha256 |-> "h1", mime_type |-> MimeOf("h1")]

Outcomes(datafile_src) ==
    {"ok", "inspect_fails"} \cup
    (IF IsRemote(datafile_src) THEN {"download_fails"} ELSE {})

LoadTagLists == { <<>>, <<<<"b">>>> }

LoadCfgs ==
    [domain : Domains, dataset_name : DatasetNames, exists_ok : BOOLEAN,
     stage : {"raw"}, tags : LoadTagLists]

Gatherable == (SUBSET LocalSources) \cup (SUBSET RemoteSources)

ClientError == [type |-> "ClientError", orig |-> ""]
InspectError == [type |-> "OSError", orig |-> ""]
GatherFailed == ValueError("Failed to gather data files")
LoadFailed == ValueError("Failed to load datafiles")

(* The except clause of _load_datafile.                                    *)
translate_error(err) ==
    IF err.type = "IntegrityError"
    THEN IF err.orig = "files.s3uri" THEN FileExistsError ELSE err
    ELSE err

(* "with journalist.transaction(): add_file_record(...)"; a is what        *)
(* add_file_record returned.                                               *)
transaction_block(m, a, rep) ==
    IF a.err # NoErr THEN Result(session_rollback(a.j), a.err, NoId)
    ELSE transaction_exit(m, a.j, rep)

(* The except clause and the return of _load_datafile; ret is the id of    *)
(* the new record.                                                         *)
created(t) ==
    IF t.err # NoErr THEN Result(t.j, translate_error(t.err), NoId)
    ELSE Result(t.j, NoErr, MaxOf({ f.id : f \in t.j.db.files }))

(* DataLoader._load_datafile.                                              *)
load_datafile(m, j, cfg, dataset, datafile_src, outcome, rep) ==
    IF outcome = "download_fails" THEN Result(j, ClientError, NoId)
    ELSE IF outcome = "inspect_fails" THEN Result(j, InspectError, NoId)
    ELSE LET metadata == Metadata(datafile_src) IN
         created(transaction_block(
                     m,
                     add_file_record(m, j, dataset, cfg_s3bucket, cfg_s3prefix,
                                     metadata.filename, metadata.sha256,
                                     metadata.mime_type, cfg.stage, cfg.tags, rep),
                     rep))

(* tempfile.gettempdir() joined with the base name of the source.          *)
TmpFile(datafile_src) ==
    CASE datafile_src = "s3://src/a.t" -> "/tmp/a.t"
      [] OTHER -> "/tmp/other"

(* DataLoader._get_local_file around one item, on the temporary files that *)
(* exist.  Storage.download_obj opens the destination for writing and then *)
(* downloads; when the download raises, the try / finally that removes the *)
(* file has not been entered.  Otherwise the finally clause removes it.    *)
get_local_file(tmpfiles, datafile_src, err) ==
    IF ~IsRemote(datafile_src) THEN tmpfiles
    ELSE IF err = ClientError THEN tmpfiles \cup {TmpFile(datafile_src)}
    ELSE tmpfiles \ {TmpFile(datafile_src)}

(* The try / except / else around _load_datafile in DataLoader.load.       *)
load_item(l, datafile, r) ==
    [l EXCEPT !.attempted = @ \cup {datafile},
              !.tmpfiles = get_local_file(@, datafile, r.err),
              !.processed = IF r.err = NoErr THEN @ \cup {<<datafile, r.ret>>}
                            ELSE @]

(* An end of load that returns whatever was processed.                     *)
return_always(l) == [l EXCEPT !.pc = "returned", !.ret = NoneValue]

(* The end of DataLoader.load: the check of processed_datafiles and the    *)
(* return.                                                                 *)
load_summarize(l) ==
    IF l.processed = {}
    THEN [l EXCEPT !.pc = "raised", !.err = LoadFailed]
    ELSE [l EXCEPT !.pc = "returned", !.ret = NoneValue]

(* A load that resolves the dataset before it looks at the gathering.      *)
dataset_before_gathering(l, j, d) ==
    IF d.err # NoErr
    THEN /\ load' = [l EXCEPT !.pc = "raised", !.err = d.err]
         /\ journalist' = d.j
         /\ last' = Call("load", <<>>, d.err, NoId)
    ELSE IF l.datafiles = {}
    THEN /\ load' = [l EXCEPT !.pc = "raised", !.err = GatherFailed]
         /\ journalist' = d.j
         /\ last' = Call("load", <<>>, GatherFailed, NoId)
    ELSE /\ load' = [l EXCEPT !.pc = "loop", !.dataset_record = d.ret]
         /\ journalist' = d.j
         /\ last' = Call("load", <<>>, NoErr, NoId)

(* A load that goes on with the existing dataset when add_dataset raised   *)
(* DatasetExist.                                                           *)
dataset_exist_ignored(l, j, d) ==
    IF l.datafiles = {}
    THEN /\ load' = [l EXCEPT !.pc = "raised", !.err = GatherFailed]
         /\ journalist' = j
         /\ last' = Call("load", <<>>, GatherFailed, NoId)
    ELSE IF d.err # NoErr /\ d.err # DatasetExist
    THEN /\ load' = [l EXCEPT !.pc = "raised", !.err = d.err,
                              !.add_dataset_calls = @ + 1]
         /\ journalist' = d.j
         /\ last' = Call("load", <<>>, d.err, NoId)
    ELSE /\ load' = [l EXCEPT !.pc = "loop", !.add_dataset_calls = @ + 1,
                        !.dataset_record =
                            CHOOSE ds \in d.j.db.datasets :
                                ds.domain = l.cfg.domain /\ ds.name = l.cfg.dataset_name]
         /\ journalist' = d.j
         /\ last' = Call("load", <<>>, NoErr, NoId)

(* DataLoader.load up to the loop, in a new process on the same database: *)
(* l holds the gathered datafiles, d is what add_dataset returned.         *)
Started(l, j, d) ==
    IF l.datafiles = {}
    THEN /\ load' = [l EXCEPT !.pc = "raised", !.err = GatherFailed]
         /\ journalist' = j
         /\ last' = Call("load", <<>>, GatherFailed, NoId)
    ELSE IF d.err # NoErr
    THEN /\ load' = [l EXCEPT !.pc = "raised", !.err = d.err, !.add_dataset_calls = @ + 1]
         /\ journalist' = d.j
         /\ last' = Call("load", <<>>, d.err, NoId)
    ELSE /\ load' = [l EXCEPT !.pc = "loop", !.dataset_record = d.ret,
                              !.add_dataset_calls = @ + 1]
         /\ journalist' = d.j
         /\ last' = Call("load", <<>>, NoErr, NoId)

LoadStart ==
    /\ load.pc = "idle"
    /\ ~txn
    /\ Cardinality(journalist.db.files) < MaxFiles
    /\ \E cfg \in LoadCfgs, datafiles \in Gatherable, rep \in Constraints :
         Started([NoLoad EXCEPT !.cfg = cfg, !.datafiles = datafiles,
                                !.files0 = { f.id : f \in journalist.db.files }],
                 NewJournalist(journalist.db),
                 add_dataset(models, NewJournalist(journalist.db), cfg.domain,
                             cfg.dataset_name, cfg.exists_ok, rep))
    /\ UNCHANGED <<models, txn, snapshot, probe, fetch>>

(* One iteration of the loop over datafiles; r is what _load_datafile      *)
(* returned or raised.                                                     *)
Attempted(datafile, outcome, r) ==
    /\ load' = load_item(load, datafile, r)
    /\ journalist' = r.j
    /\ last' = Call("_load_datafile", <<datafile, outcome>>, r.err, r.ret)

LoadItem ==
    /\ load.pc = "loop"
    /\ \E datafile \in load.datafiles \ load.attempted, rep \in Constraints :
         \E outcome \in Outcomes(datafile) :
           Attempted(datafile, outcome,
                     load_datafile(models, journalist, load.cfg,
                                   load.dataset_record, datafile, outcome, rep))
    /\ UNCHANGED <<models, txn, snapshot, probe, fetch>>

LoadFinish ==
    /\ load.pc = "loop"
    /\ load.attempted = load.datafiles
    /\ load' = load_summarize(load)
    /\ last' = Call("load", <<>>, load'.err, NoId)
    /\ UNCHANGED <<models, journalist, txn, snapshot, probe, fetch>>

(* The process ends; the database stays.                                   *)
LoadExit ==
    /\ load.pc \in {"raised", "returned"}
    /\ load' = NoLoad
    /\ journalist' = NewJournalist(journalist.db)
    /\ last' = Call("init", <<>>, NoErr, NoId)
    /\ UNCHANGED <<models, txn, snapshot, probe, fetch>>

NextLoad ==
    \/ LoadStart
    \/ LoadItem
    \/ LoadFinish
    \/ LoadExit

SpecLoad == Init /\ [][NextLoad]_vars

(* ---------------------------------------------------------------------- *)
(* The listener applied as a function of a record's fields                 *)
(* ---------------------------------------------------------------------- *)
ProbeTarget(x) ==
    [id |-> NoId, dataset_id |-> 1, s3bucket |-> x.s3bucket,
     s3prefix |-> x.s3prefix, stage |-> x.stage, filename |-> x.filename,
     sha256 |-> x.sha256, mime_type |-> x.mime_type, s3uri |-> NoUri,
     tags |-> <<>>]

ProbeDataset(x) == [id |-> 1, domain |-> x.domain, name |-> x.dataset_name]

(* The eight inputs of the Key Resolver for the record built from x.       *)
ResolverInputs(x) ==
    <<x.s3bucket, x.s3prefix, x.domain, x.dataset_name, x.stage, x.mime_type,
      x.sha256, splitext_ext(x.filename)>>

DifferAt(x, y) == { i \in 1..8 : ResolverInputs(x)[i] # ResolverInputs(y)[i] }

Resolve ==
    /\ ~probe.set
    /\ \E x \in ProbeInputs, y \in ProbeInputs :
         /\ Cardinality(DifferAt(x, y)) <= 1
         /\ probe' = [set |-> TRUE, x |-> x, y |-> y,
                      ux |-> validate_and_compute_s3uri(
                                 models, ProbeTarget(x), ProbeDataset(x)),
                      uy |-> validate_and_compute_s3uri(
                                 models, ProbeTarget(y), ProbeDataset(y))]
    /\ UNCHANGED <<models, journalist, txn, snapshot, last, load, fetch>>

NextResolve == Resolve

SpecResolve == Init /\ [][NextResolve]_vars

(* ---------------------------------------------------------------------- *)
(* DataFetcher                                                             *)
(* ---------------------------------------------------------------------- *)
Backends == {"sqlite", "postgresql"}
EXPORT_FORMATS == {"json", "yaml"}
FETCH_FILENAME == "fetch"
Limits == {1, 2}
MimeFilters ==
    { <<>>, <<"t", "e", "x", "t">>, <<"t", "_", "p">>, <<"T", "e", "x", "t">> }
FetchTagLists == { <<>>, <<<<"a">>>>, <<<<"A">>>>, <<<<"a">>, <<"b">>>> }

(* The tags argument of a request: not given, given as None, or a list.    *)
FetchTagArgs ==
    { NoTagsArg, [kind |-> "None", value |-> <<>>] }
        \cup { [kind |-> "list", value |-> tags] : tags \in FetchTagLists }

(* The characters of a stored MIME type.                                   *)
MimeChars(mime_type) ==
    IF mime_type = "text/plain"
    THEN <<"t", "e", "x", "t", "/", "p", "l", "a", "i", "n">>
    ELSE <<"i", "m", "a", "g", "e", "/", "p", "n", "g">>

(* The arguments FetchDataConfig is built from: export_format is always    *)
(* one of the supported formats (the default is "json"); an absent mime    *)
(* filter is the empty sequence, an absent dataset name None.              *)
FetchArgs ==
    [directory : {"out"}, limit : Limits, domain : Domains,
     dataset_name : {NoneValue, "n1"}, stage : {"raw", "staged"},
     mime : MimeFilters, tags : FetchTagArgs,
     export_format : EXPORT_FORMATS, export : BOOLEAN, dry : BOOLEAN]

TypeError == [type |-> "TypeError", orig |-> ""]

(* FetchDataConfig.serialize_tags: "if not tags:" is taken for None and    *)
(* for the empty list, and its body iterates over tags.                    *)
serialize_tags(tags) ==
    IF tags.kind = "None" \/ tags.value = <<>>
    THEN IF tags.kind = "None" THEN [err |-> TypeError, tags |-> <<>>]
         ELSE [err |-> NoErr,
               tags |-> [i \in 1..Len(tags.value) |-> lower(tags.value[i])]]
    ELSE [err |-> NoErr, tags |-> tags.value]

(* The tags field of the configuration: the default None of a field that   *)
(* was not given is not validated; None and the empty list are both falsy  *)
(* to "if fetch_cfg.tags:" and are the empty sequence here.                *)
validated_tags(tags) ==
    IF tags.kind = "absent" THEN [err |-> NoErr, tags |-> <<>>]
    ELSE serialize_tags(tags)

FetchDataConfig(args) == [args EXCEPT !.tags = validated_tags(args.tags).tags]

fetch_export_filepath(cfg) == <<cfg.directory, FETCH_FILENAME, cfg.export_format>>

(* A registry as earlier loads leave it: three datasets, two tags and the  *)
(* first k of four files.  The first two files have the same content in    *)
(* two datasets of one domain; the first carries both tags.                *)
FetchDatasets ==
    { [id |-> 1, domain |-> "d1", name |-> "n1"],
      [id |-> 2, domain |-> "d1", name |-> "n2"],
      [id |-> 3, domain |-> "d2", name |-> "n1"] }

FetchTags == { [id |-> 1, name |-> <<"a">>], [id |-> 2, name |-> <<"b">>] }

FetchFile(dataset_id, filename, sha256, stage, tags) ==
    [id |-> NoId, dataset_id |-> dataset_id, s3bucket |-> cfg_s3bucket,
     s3prefix |-> cfg_s3prefix, stage |-> stage, filename |-> filename,
     sha256 |-> sha256, mime_type |-> MimeOf(sha256), s3uri |-> NoUri,
     tags |-> tags]

FetchFiles ==
    << FetchFile(1, <<"a", ".", "t">>, "h1", "raw", <<1, 2>>),
       FetchFile(2, <<"a", ".", "d">>, "h1", "raw", <<1>>),
       FetchFile(1, <<"a", ".", "d">>, "h2", "staged", <<>>),
       FetchFile(3, <<"a", ".", "t">>, "h2", "raw", <<2>>) >>

RECURSIVE register_all(_, _, _)
register_all(m, store, rows) ==
    IF rows = <<>> THEN store
    ELSE register_all(
             m,
             insert_file(store, before_insert(m, store, Head(rows)),
                         "files.s3uri").store,
             Tail(rows))

RegistryWith(m, k) ==
    register_all(m, [datasets |-> FetchDatasets, files |-> {}, tags |-> FetchTags],
                 SubSeq(FetchFiles, 1, k))

(* SQL LIKE: "%" matches any run of characters, "_" any one character;     *)
(* fold says that letters match regardless of case (SQLite's LIKE).        *)
RECURSIVE like(_, _, _)
like(pattern, s, fold) ==
    IF pattern = <<>> THEN s = <<>>
    ELSE IF Head(pattern) = "%"
    THEN \/ like(Tail(pattern), s, fold)
         \/ s # <<>> /\ like(pattern, Tail(s), fold)
    ELSE /\ s # <<>>
         /\ \/ Head(pattern) = "_"
            \/ Head(pattern) = Head(s)
            \/ fold /\ lower_char(Head(pattern)) = lower_char(Head(s))
         /\ like(Tail(pattern), Tail(s), fold)

NoTag == [id |-> NoId, name |-> <<>>]

(* query(FileRecord).join(DatasetRecord), and with a tag filter            *)
(* .join(FileRecord.tags): one row per file, or per (file, tag of it).     *)
joined_rows(store, cfg) ==
    IF cfg.tags # <<>>
    THEN { ft \in store.files \X store.tags : ft[2].id \in Range(ft[1].tags) }
    ELSE store.files \X {NoTag}

(* The WHERE clause built by DataFetcher.fetch for one joined row.         *)
row_selected(cfg, backend, dataset, file, tag) ==
    /\ dataset.domain = cfg.domain
    /\ file.stage = cfg.stage
    /\ cfg.dataset_name # NoneValue => dataset.name = cfg.dataset_name
    /\ cfg.mime # <<>> =>
           like(<<"%">> \o cfg.mime \o <<"%">>, MimeChars(file.mime_type),
                backend = "sqlite")
    /\ cfg.tags # <<>> => tag.name \in Range(cfg.tags)

query_rows(store, cfg, backend) ==
    { <<ft[1].id, ft[2].id>> :
        ft \in { r \in joined_rows(store, cfg) :
                   row_selected(cfg, backend,
                                DatasetById(store, r[1].dataset_id), r[1], r[2]) } }

(* LIMIT without ORDER BY: any limit of the selected rows.                 *)
limit_rows(rows, limit) ==
    { S \in SUBSET rows :
        Cardinality(S) = IF Cardinality(rows) < limit
                         THEN Cardinality(rows) ELSE limit }

(* Query.all() for one mapped entity: each FileRecord once.                *)
unique_entities(rows) == { r[1] : r \in rows }

(* Journalist.file_record2dict (size and creation time are not modelled).  *)
file_record2dict(store, file_record) ==
    IF file_record.tags # <<>>
    THEN [id |-> file_record.id, s3bucket |-> file_record.s3bucket,
          s3prefix |-> file_record.s3prefix, stage |-> file_record.stage,
          filename |-> file_record.filename, sha256 |-> file_record.sha256,
          mime_type |-> file_record.mime_type, s3uri |-> file_record.s3uri,
          dataset |-> [id |-> file_record.dataset_id,
                       name |-> DatasetById(store, file_record.dataset_id).name],
          tags |-> [i \in 1..Len(file_record.tags) |->
                      CHOOSE tag \in store.tags : tag.id = file_record.tags[i]]]
    ELSE [id |-> file_record.id, s3bucket |-> file_record.s3bucket,
          s3prefix |-> file_record.s3prefix, stage |-> file_record.stage,
          filename |-> file_record.filename, sha256 |-> file_record.sha256,
          mime_type |-> file_record.mime_type, s3uri |-> file_record.s3uri,
          dataset |-> [id |-> file_record.dataset_id,
                       name |-> DatasetById(store, file_record.dataset_id).name]]

(* DataFetcher._export_records: records_dict[record_dict["sha256"]] =      *)
(* record_dict for each record in turn.  The dictionary is given as the    *)
(* set of its values, one per key; for a key assigned twice the value kept *)
(* is the one assigned last, which depends on the order of the rows.       *)
export_records(store, file_records) ==
    { records_dict \in
          SUBSET { file_record2dict(store, FileById(store, id)) : id \in file_records } :
        /\ \A id \in file_records :
              \E d \in records_dict : d.sha256 = FileById(store, id).sha256
        /\ \A d, e \in records_dict : d.sha256 = e.sha256 => d = e }

(* export_data(filepath, data): the file at filepath holds data.           *)
export_data(filepath, data) == [written |-> TRUE, path |-> filepath, data |-> data]

DownloadFailed == ValueError("Failed to download files")

(* os.makedirs(name, exist_ok=True) by the type of name: os.fspath raises  *)
(* TypeError for anything but str, bytes or os.PathLike.                   *)
os_makedirs(name_type) ==
    IF name_type \in {"str", "bytes", "PathLike"} THEN NoErr ELSE TypeError

(* The blocks under "if file_records:" run whatever the query returned.    *)
always_found(file_records) == TRUE

(* "if file_records:".                                                     *)
records_found(file_records) == file_records # {}

(* "if fetch_cfg.export_format:".                                          *)
export_wanted(cfg) == cfg.export_format # NoneValue

(* DataFetcher._download_records: ok is the set of records whose download  *)
(* does not raise.                                                         *)
download_records(f, ok) ==
    [f EXCEPT !.attempted = f.file_records, !.downloaded = ok,
              !.pc = IF ok = {} THEN "raised" ELSE "returned",
              !.err = IF ok = {} THEN DownloadFailed ELSE NoErr]

(* "if not fetch_cfg.dry:" os.makedirs(fetch_cfg, exist_ok=True), then     *)
(* _download_records; made is what os.makedirs raised.                     *)
download_block(f, made, ok) ==
    IF made # NoErr THEN [f EXCEPT !.pc = "raised", !.err = made]
    ELSE download_records(f, ok)

(* The download block of fetch is reached at once when the export block is *)
(* skipped.                                                                *)
download_before_export(f) ==
    f.pc \in {"queried", "exported"} /\ records_found(f.file_records)

(* The statements of fetch up to "if not fetch_cfg.dry:" have run.         *)
export_block_passed(f) ==
    \/ f.pc = "exported"
    \/ f.pc = "queried" /\ records_found(f.file_records) /\ ~export_wanted(f.cfg)

(* The FetchDataConfig built by main, then the query of fetch.  When the   *)
(* configuration is rejected fetch is never entered.                       *)
FetchQuery ==
    /\ fetch.pc = "idle"
    /\ \E args \in FetchArgs :
         IF validated_tags(args.tags).err # NoErr
         THEN fetch' = [NoFetch EXCEPT !.backend = fetch.backend,
                                       !.tags_arg = args.tags,
                                       !.err = validated_tags(args.tags).err]
         ELSE \E rows \in limit_rows(
                              query_rows(journalist.session,
                                         FetchDataConfig(args), fetch.backend),
                              args.limit) :
                 fetch' = [fetch EXCEPT !.pc = "queried",
                                        !.tags_arg = args.tags,
                                        !.err = NoErr,
                                        !.cfg = FetchDataConfig(args),
                                        !.rows = rows,
                                        !.file_records = unique_entities(rows)]
    /\ UNCHANGED <<models, journalist, txn, snapshot, last, load, probe>>

FetchExport ==
    /\ fetch.pc = "queried"
    /\ records_found(fetch.file_records)
    /\ export_wanted(fetch.cfg)
    /\ os_makedirs("str") = NoErr
    /\ \E records_dict \in export_records(journalist.session, fetch.file_records) :
          fetch' = [fetch EXCEPT
                       !.pc = "exported",
                       !.export = export_data(fetch_export_filepath(fetch.cfg),
                                              records_dict)]
    /\ UNCHANGED <<models, journalist, txn, snapshot, last, load, probe>>

FetchDownload ==
    /\ export_block_passed(fetch)
    /\ ~fetch.cfg.dry
    /\ \E ok \in SUBSET fetch.file_records :
          fetch' = download_block(fetch, os_makedirs("FetchDataConfig"), ok)
    /\ UNCHANGED <<models, journalist, txn, snapshot, last, load, probe>>

FetchReturn ==
    /\ \/ fetch.pc = "queried" /\ ~records_found(fetch.file_records)
       \/ export_block_passed(fetch) /\ fetch.cfg.dry
    /\ fetch' = [fetch EXCEPT !.pc = "returned"]
    /\ UNCHANGED <<models, journalist, txn, snapshot, last, load, probe>>

(* The command ends; the next one starts with an empty target directory.   *)
FetchExit ==
    /\ fetch.pc \in {"returned", "raised"}
    /\ fetch' = [NoFetch EXCEPT !.backend = fetch.backend]
    /\ UNCHANGED <<models, journalist, txn, snapshot, last, load, probe>>

NextFetch == FetchQuery \/ FetchExport \/ FetchDownload \/ FetchReturn \/ FetchExit

InitFetch ==
    /\ models \in ModelsModules
    /\ \E k \in 0..Len(FetchFiles) :
          journalist = NewJournalist(RegistryWith(models, k))
    /\ txn = FALSE
    /\ snapshot = EmptyStore
    /\ last = Call("init", <<>>, NoErr, NoId)
    /\ load = NoLoad
    /\ probe = NoProbe
    /\ \E backend \in Backends : fetch = [NoFetch EXCEPT !.backend = backend]

SpecFetch == InitFetch /\ [][NextFetch]_vars

(* ---------------------------------------------------------------------- *)
(* Journalist.get_file_record with every lookup argument                   *)
(* ---------------------------------------------------------------------- *)
LookupArgs ==
    [file_id : {NoId, 1, 2}, sha256 : {NoneValue, "h1", "h2"},
     filename : { <<>>, <<"a", ".", "t">> }, dataset_name : {NoneValue, "n1"},
     domain : {NoneValue, "d1"}]

(* query.filter(...).first(): any row of the filtered set, or None.        *)
first(f, ids) ==
    IF f.err # NoErr THEN {f}
    ELSE IF ids = {} THEN {Result(f.j, NoErr, NoId)}
    ELSE { Result(f.j, NoErr, id) : id \in ids }

files_by_id(f, file_id) ==
    first(f, { r.id : r \in { x \in f.j.session.files : x.id = file_id } })

files_by_sha256(f, sha256) ==
    first(f, { r.id : r \in { x \in f.j.session.files : x.sha256 = sha256 } })

files_by_name(f, filename, dataset_name, domain) ==
    first(f, { r.id : r \in
                 { x \in f.j.session.files :
                     /\ x.filename = filename
                     /\ DatasetById(f.j.session, x.dataset_id).name = dataset_name
                     /\ DatasetById(f.j.session, x.dataset_id).domain = domain } })

(* Journalist.get_file_record: the set of results it can return (first()   *)
(* has no ORDER BY).  A None or empty argument is falsy.                   *)
lookup_file_record(m, j, a, rep) ==
    IF a.file_id # NoId THEN files_by_id(session_flush(m, j, rep), a.file_id)
    ELSE IF a.sha256 # NoneValue
    THEN files_by_sha256(session_flush(m, j, rep), a.sha256)
    ELSE IF a.filename # <<>> /\ a.dataset_name # NoneValue /\ a.domain # NoneValue
    THEN files_by_name(session_flush(m, j, rep), a.filename, a.dataset_name,
                       a.domain)
    ELSE {Result(j, ValueError("get_file_record requires"), NoId)}

GetFileRecord ==
    /\ \E a \in LookupArgs, rep \in Constraints :
         \E r \in lookup_file_record(models, journalist, a, rep) :
            /\ journalist' = r.j
            /\ last' = Call("get_file_record", <<a>>, r.err, r.ret)
    /\ UNCHANGED <<models, txn, snapshot, load, probe, fetch>>

NextLookup == GetFileRecord

SpecLookup == InitFetch /\ [][NextLookup]_vars

(* ---------------------------------------------------------------------- *)
(* add_file_record inside transactions on an existing dataset              *)
(* ---------------------------------------------------------------------- *)
InitStage ==
    /\ models \in ModelsModules
    /\ journalist = NewJournalist(
           [EmptyStore EXCEPT !.datasets = {[id |-> 1, domain |-> "d1", name |-> "n1"]}])
    /\ txn = FALSE
    /\ snapshot = journalist.db
    /\ last = Call("init", <<>>, NoErr, NoId)
    /\ load = NoLoad
    /\ probe = NoProbe
    /\ fetch = NoFetch

NextStage ==
    \/ EnterTransaction(TRUE)
    \/ ExitTransaction
    \/ RaiseInTransaction
    \/ AddFileRecord({<<"a", ".", "t">>}, Hashes, TagLists)

SpecStage == InitStage /\ [][NextStage]_vars

(* ---------------------------------------------------------------------- *)
(* DatasetCreator.relate_data                                              *)
(* ---------------------------------------------------------------------- *)
FileRecordExist == [type |-> "FileRecordExist", orig |-> ""]
UnboundLocalError == [type |-> "UnboundLocalError", orig |-> "file_id"]

(* The local variable file_id of relate_data before its first assignment.  *)
Unbound == -1

(* The entries of a data config: one exported record each.                 *)
RelateEntries == [sha256 : Hashes, filename : { <<"a", ".", "t">> }]

RelateConfigs ==
    { <<>> } \cup { <<x>> : x \in RelateEntries }
             \cup { <<x, y>> : x \in RelateEntries, y \in RelateEntries }

(* The id of the record that a successful flush has just inserted.         *)
created_record(f) ==
    IF f.err # NoErr THEN Result(f.j, f.err, NoId)
    ELSE Result(f.j, NoErr, MaxOf({ r.id : r \in f.j.session.files }))

(* Journalist.create_file_record: registers the file and returns its       *)
(* record; FileRecordExist when a uniqueness constraint of files rejects   *)
(* it.                                                                     *)
create_file_record(m, j, dataset, entry, rep) ==
    IF ViolatedBy(j.session.files,
                  before_insert(m, j.session,
                                FetchFile(dataset.id, entry.filename,
                                          entry.sha256, "raw", <<>>))) # {}
    THEN Result(j, FileRecordExist, NoId)
    ELSE created_record(
             session_flush(
                 m,
                 add_file_record(m, j, dataset, cfg_s3bucket, cfg_s3prefix,
                                 entry.filename, entry.sha256,
                                 MimeOf(entry.sha256), "raw", <<>>, rep).j,
                 rep))

(* The loop of relate_data; c is what create_file_record did for the head  *)
(* of entries, file_id the local variable as the earlier iterations left   *)
(* it.  "except FileRecordExist: related_file_ids.append(file_id)".        *)
RECURSIVE relate_data(_, _, _, _, _, _, _)
relate_next(m, c, dataset, entries, related_file_ids, file_id, rep) ==
    IF c.err = NoErr
    THEN relate_data(m, c.j, dataset, Tail(entries),
                     Append(related_file_ids, c.ret), c.ret, rep)
    ELSE IF c.err = FileRecordExist
    THEN IF file_id = Unbound
         THEN Result(c.j, UnboundLocalError, related_file_ids)
         ELSE relate_data(m, c.j, dataset, Tail(entries),
                          Append(related_file_ids, file_id), file_id, rep)
    ELSE Result(c.j, c.err, related_file_ids)

relate_data(m, j, dataset, entries, related_file_ids, file_id, rep) ==
    IF entries = <<>> THEN Result(j, NoErr, related_file_ids)
    ELSE relate_next(m, create_file_record(m, j, dataset, Head(entries), rep),
                     dataset, entries, related_file_ids, file_id, rep)

Related(dataset, data_config, r) ==
    /\ journalist' = r.j
    /\ last' = Call("relate_data", <<dataset.id, data_config>>, r.err, r.ret)
    /\ UNCHANGED <<models, txn, snapshot, load, probe, fetch>>

RelateData ==
    /\ last.op = "init"
    /\ \E dataset \in journalist.session.datasets, data_config \in RelateConfigs,
          rep \in Constraints :
         Related(dataset, data_config,
                 relate_data(models, journalist, dataset, data_config, <<>>,
                             Unbound, rep))

NextRelate == RelateData

SpecRelate == InitFetch /\ [][NextRelate]_vars

(* ---------------------------------------------------------------------- *)
(* DataLoader._gather_datafiles over an object store and a local directory *)
(* ---------------------------------------------------------------------- *)
S3Scheme == <<"s", "3", ":", "/", "/">>

startswith(s, p) == Len(s) >= Len(p) /\ SubSeq(s, 1, Len(p)) = p

endswith(s, p) == Len(s) >= Len(p) /\ SubSeq(s, Len(s) - Len(p) + 1, Len(s)) = p

(* s3uri[5:] split on its first "/" into bucket and prefix.  Every source  *)
(* handed to it starts with "s3://" and names a bucket.                    *)
split_s3uri(s3uri) ==
    LET path == SubSeq(s3uri, 6, Len(s3uri))
        slashes == { i \in 1..Len(path) : path[i] = "/" }
        cut == IF slashes = {} THEN Len(path) + 1
               ELSE CHOOSE i \in slashes : \A k \in slashes : i <= k
    IN  <<SubSeq(path, 1, cut - 1), SubSeq(path, cut + 1, Len(path))>>

(* posixpath.basename: what follows the last "/".                          *)
posixpath_basename(p) ==
    LET slashes == { i \in 1..Len(p) : p[i] = "/" }
        cut == IF slashes = {} THEN 0
               ELSE CHOOSE i \in slashes : \A k \in slashes : i >= k
    IN  SubSeq(p, cut + 1, Len(p))

(* posixpath.join of two parts.                                            *)
posixpath_join(a, b) ==
    IF startswith(b, <<"/">>) THEN b
    ELSE IF a = <<>> \/ endswith(a, <<"/">>) THEN a \o b
    ELSE a \o <<"/">> \o b

merge_s3uri(a, b) == S3Scheme \o posixpath_join(a, b)

(* The keys an object store can hold, in the order it lists them (UTF-8    *)
(* binary order): p/  p/a/x.t  p/b/x.t  p/x.t  p/y.T  pp/x.t  q/x.t        *)
ObjectKeys ==
    << <<"p", "/">>,
       <<"p", "/", "a", "/", "x", ".", "t">>,
       <<"p", "/", "b", "/", "x", ".", "t">>,
       <<"p", "/", "x", ".", "t">>,
       <<"p", "/", "y", ".", "T">>,
       <<"p", "p", "/", "x", ".", "t">>,
       <<"q", "/", "x", ".", "t">> >>

Buckets == SUBSET Range(ObjectKeys)

DataSrcs ==
    { S3Scheme \o <<"b", "/", "p">>, S3Scheme \o <<"b", "/", "p", "/">>,
      <<"/", "d">> }

GatherFilters == { <<>>, << <<".", "t">> >>, << <<"t">> >> }

(* The entries of the local directory: name and whether it is a file.      *)
DirEntries ==
    { [name |-> <<"x", ".", "t">>, isfile |-> TRUE],
      [name |-> <<"y", ".", "T">>, isfile |-> TRUE],
      [name |-> <<"a", ".", "t">>, isfile |-> FALSE],
      [name |-> <<".", "t">>, isfile |-> TRUE] }

Directories == SUBSET DirEntries

(* The paginator over Prefix: the keys of the bucket that start with the   *)
(* prefix, in listing order.                                               *)
list_objects_v2(bucket, s3prefix) ==
    SelectSeq(ObjectKeys, LAMBDA key : key \in bucket /\ startswith(key, s3prefix))

list_objects(bucket, s3uri, extensions) ==
    LET s3prefix0 == split_s3uri(s3uri)[2]
        s3prefix == IF endswith(s3prefix0, <<"/">>) THEN s3prefix0
                    ELSE s3prefix0 \o <<"/">>
        contents == list_objects_v2(bucket, s3prefix)
        wanted(i) ==
            LET object_name == posixpath_basename(contents[i]) IN
            \/ extensions = <<>>
            \/ \E e \in Range(extensions) : endswith(lower(object_name), e)
        RECURSIVE found_objects(_)
        found_objects(i) ==
            IF i > Len(contents) THEN <<>>
            ELSE (IF wanted(i) THEN <<posixpath_basename(contents[i])>> ELSE <<>>)
                 \o found_objects(i + 1)
    IN  found_objects(1)

(* glob("*") or glob("*.ext") in the directory, not recursive: a leading   *)
(* dot is never matched by "*".                                            *)
glob(directory, pattern_suffix) ==
    { e.name : e \in { d \in directory :
                         /\ d.name[1] # "."
                         /\ endswith(d.name, pattern_suffix) } }

collect_files(directory, path, filters) ==
    LET suffixes == IF filters = <<>> THEN { <<>> }
                    ELSE { <<".">> \o ext : ext \in Range(filters) }
        matches == UNION { glob(directory, s) : s \in suffixes }
    IN  { posixpath_join(path, match) :
            match \in { n \in matches :
                          \E d \in directory : d.name = n /\ d.isfile } }

gather_datafiles(bucket, directory, data_src, filters) ==
    IF startswith(data_src, S3Scheme)
    THEN LET s3objcets == list_objects(bucket, data_src, filters) IN
         { merge_s3uri(data_src, s3objcets[i]) : i \in 1..Len(s3objcets) }
    ELSE collect_files(directory, data_src, filters)

GatherDatafiles ==
    /\ last.op = "init"
    /\ \E bucket \in Buckets, directory \in Directories,
          data_src \in DataSrcs, filters \in GatherFilters :
         /\ startswith(data_src, S3Scheme) => directory = {}
         /\ ~startswith(data_src, S3Scheme) => bucket = {}
         /\ last' = Call("_gather_datafiles",
                         <<data_src, filters, bucket, directory>>, NoErr,
                         gather_datafiles(bucket, directory, data_src, filters))
    /\ UNCHANGED <<models, journalist, txn, snapshot, load, probe, fetch>>

NextGather == GatherDatafiles

SpecGather == Init /\ [][NextGather]_vars

(* ---------------------------------------------------------------------- *)
(* Properties                                                              *)
(* ---------------------------------------------------------------------- *)

(* C1: transaction atomicity.  When a "with journalist.transaction()"      *)
(* block in which a dataset was created ends with an exception, the        *)
(* committed registry equals the registry at the time the block was        *)
(* entered: no new file row and no new dataset row.                        *)
C1_TransactionAtomicity ==
    (last.op = "transaction" /\ last.err # NoErr) => journalist.db = snapshot

(* A step of the ingestion loop that attempted one more datafile.          *)
LoadItemStep == load.pc = "loop" /\ load'.attempted # load.attempted

(* The registry holds a file with the (dataset, bucket, prefix, stage,     *)
(* content hash) the datafile of this step is registered with.             *)
AlreadyRegistered ==
    \E f \in journalist.db.files :
        unique_data_file(f) =
            <<load.dataset_record.id, cfg_s3bucket, cfg_s3prefix, load.cfg.stage,
              Metadata(last'.args[1]).sha256>>

(* C2: dedup.  Registering a file whose (dataset, bucket, prefix, stage,   *)
(* content hash) equals that of a registered file fails with               *)
(* FileExistsError and with no other error, and leaves the file rows, the  *)
(* first record with its tags among them, unchanged.                       *)
C2_Dedup ==
    [][(LoadItemStep /\ last'.args[2] = "ok" /\ AlreadyRegistered)
         => (last'.err = FileExistsError
             /\ journalist'.db.files = journalist.db.files)]_vars

(* The Key Resolver applied to the fields of the row f of store, with the  *)
(* inputs the registered listener passes.                                  *)
ResolvedFromFields(store, f) ==
    IF models = "dj.registry.models"
    THEN resolve_data_s3uri(f.s3bucket, f.s3prefix,
                            DatasetById(store, f.dataset_id).domain,
                            DatasetById(store, f.dataset_id).name,
                            f.stage, f.mime_type, f.sha256, splitext_ext(f.filename))
    ELSE resolve_data_s3uri(f.s3bucket, f.s3prefix, Omitted, Omitted,
                            f.stage, f.mime_type, f.sha256, splitext_ext(f.filename))

(* C3: derived URI.  In every reachable state the s3uri of every committed *)
(* file row is the Key Resolver applied to the row's own fields; a value   *)
(* the caller assigned before an insert or an update is never persisted.   *)
C3_DerivedUri ==
    \A f \in journalist.db.files :
        f.s3uri = ResolvedFromFields(journalist.db, f) /\ f.s3uri # BogusUri

(* C3 witness: a transaction committed file rows while the session held a  *)
(* record with a caller-assigned s3uri.                                    *)
C3_Witness ==
    /\ last.op = "transaction"
    /\ last.err = NoErr
    /\ last.args = <<TRUE>>
    /\ journalist.db.files # {}

(* C4: collision resistance.  Two file records whose (domain, dataset      *)
(* name, stage, content hash) differ in at least one component get         *)
(* different URIs from the listener at insert time.                        *)
C4_CollisionResistance ==
    (probe.set
     /\ <<probe.x.domain, probe.x.dataset_name, probe.x.stage, probe.x.sha256>>
          # <<probe.y.domain, probe.y.dataset_name, probe.y.stage, probe.y.sha256>>)
        => probe.ux # probe.uy

(* C5: determinism and sensitivity.  The URI the listener computes is the  *)
(* same for the same bucket, prefix, domain, dataset, stage, mime type,    *)
(* hash and extension, and differs when exactly one of the eight differs.  *)
C5_DeterminismSensitivity ==
    probe.set =>
        /\ DifferAt(probe.x, probe.y) = {} => probe.ux = probe.uy
        /\ Cardinality(DifferAt(probe.x, probe.y)) = 1 => probe.ux # probe.uy

(* The dataset rows of store for the (domain, name) of the call in args.   *)
DatasetsOf(store, args) ==
    { d \in store.datasets : d.domain = args[1] /\ d.name = args[2] }

(* C6: dataset get-or-create.  A successful add_dataset returns the one    *)
(* row of its (domain, name), the row that existed if one did; on an       *)
(* existing pair with exists_ok = False it fails and creates no row; and   *)
(* called right after a successful add_dataset of the same pair it returns *)
(* the same id (exists_ok = True) or raises DatasetExist (exists_ok =      *)
(* False).                                                                 *)
C6_GetOrCreate ==
    [][last'.op = "add_dataset" =>
        LET existing == DatasetsOf(journalist.session, last'.args)
            exists_ok == last'.args[3]
        IN  /\ last'.err = NoErr =>
                  /\ DatasetsOf(journalist'.db, last'.args) = {last'.ret}
                  /\ existing # {} =>
                        /\ last'.ret \in existing
                        /\ journalist'.db.datasets = journalist.db.datasets
            /\ (existing # {} /\ ~exists_ok) =>
                  /\ last'.err # NoErr
                  /\ journalist'.db.datasets = journalist.db.datasets
            /\ (last.op = "add_dataset" /\ last.err = NoErr
                 /\ last.args[1] = last'.args[1] /\ last.args[2] = last'.args[2]) =>
                  IF exists_ok
                  THEN last'.err = NoErr /\ last'.ret.id = last.ret.id
                  ELSE last'.err = DatasetExist]_vars

(* C6 witness: add_dataset with exists_ok = True returned a dataset that   *)
(* is not the newest row, that is one that existed before the call.        *)
C6_Witness ==
    /\ last.op = "add_dataset"
    /\ last.err = NoErr
    /\ last.args[3]
    /\ last.ret.id < MaxOf({ d.id : d \in journalist.db.datasets })

(* The tag rows of store whose name is tag_name normalized.                *)
TagsNamed(store, tag_name) ==
    { t \in store.tags : t.name = normalize_tag_name(tag_name) }

(* The positions of tag id in the tags of the file row f.                  *)
Associations(f, id) == { i \in 1..Len(f.tags) : f.tags[i] = id }

(* C7: idempotent tagging.  No file row ever holds the same tag twice and  *)
(* no two tag rows share a name; after add_tags2file succeeded, each name  *)
(* of its list has exactly one tag row for its normalized form and that    *)
(* tag is associated with the file exactly once, however many variants of  *)
(* the name this call or earlier calls passed.                             *)
C7_IdempotentTagging ==
    /\ \A f \in journalist.session.files : ~HasDuplicates(f.tags)
    /\ \A t, u \in journalist.session.tags : t.name = u.name => t = u
    /\ (last.op = "add_tags2file" /\ last.err = NoErr) =>
          \A i \in 1..Len(last.args[2]) :
              LET named == TagsNamed(journalist.session, last.args[2][i]) IN
              /\ Cardinality(named) = 1
              /\ \A t \in named :
                    Cardinality(Associations(
                        FileById(journalist.session, last.args[1]), t.id)) = 1

(* C7 witness: add_tags2file succeeded with two variants of one name in    *)
(* its list, on a file that already had that tag before its second tag    *)
(* was added.                                                              *)
C7_Witness ==
    /\ last.op = "add_tags2file"
    /\ last.err = NoErr
    /\ last.args[2] = << <<"A", " ">>, <<" ", "a">> >>
    /\ LET f == FileById(journalist.session, last.args[1]) IN
        /\ Len(f.tags) = 2
        /\ \E t \in TagsNamed(journalist.session, <<"a">>) : f.tags[1] = t.id

(* C8: batch partial failure.  When k > 0 of the gathered sources were     *)
(* registered, load returns the set of the k registered file ids.          *)
C8_ReturnsRegisteredIds ==
    load.pc = "returned" =>
        /\ load.ret # NoneValue
        /\ load.ret = { p[2] : p \in load.processed }

(* The ids of the file rows committed since the batch started.             *)
Registered == { f.id : f \in journalist.db.files } \ load.files0

(* C9: batch total failure.  The batch ends with "Failed to load           *)
(* datafiles" exactly when every gathered item was attempted and none was  *)
(* registered: the error is raised only after all items were attempted     *)
(* and only with nothing registered, a batch that returns attempted all    *)
(* and registered some, and a finished batch that attempted all of a       *)
(* non-empty gathering and registered none ended with that error.          *)
C9_BatchFailedIff ==
    /\ (load.pc = "raised" /\ load.err = LoadFailed) =>
          /\ load.datafiles # {}
          /\ load.attempted = load.datafiles
          /\ Registered = {}
    /\ load.pc = "returned" =>
          /\ load.attempted = load.datafiles
          /\ Registered # {}
    /\ (load.pc \in {"raised", "returned"} /\ load.datafiles # {}
         /\ load.attempted = load.datafiles /\ Registered = {}) =>
          load.err = LoadFailed

(* C9 witness: a batch of at least two items, all attempted, failed.       *)
C9_Witness ==
    /\ load.pc = "raised"
    /\ load.err = LoadFailed
    /\ Cardinality(load.datafiles) >= 2
    /\ load.attempted = load.datafiles

(* The FileRecord _load_datafile builds for datafile.                      *)
Candidate(datafile) ==
    [id |-> NoId, dataset_id |-> load.dataset_record.id,
     s3bucket |-> cfg_s3bucket, s3prefix |-> cfg_s3prefix,
     stage |-> load.cfg.stage, filename |-> Metadata(datafile).filename,
     sha256 |-> Metadata(datafile).sha256,
     mime_type |-> Metadata(datafile).mime_type, s3uri |-> NoUri, tags |-> <<>>]

(* The committed rows allow the insert of the datafile of this step.       *)
Insertable ==
    ViolatedBy(journalist.db.files,
               before_insert(models, journalist.db, Candidate(last'.args[1]))) = {}

(* C10: per-item failure independence.  Whatever an item's outcome, the    *)
(* loop goes on, every row and every processed item of before stays, and   *)
(* the session is left clean: nothing staged, nothing uncommitted, not     *)
(* waiting for a rollback.  An item that is fetched and inspected and      *)
(* whose row the committed rows allow is registered, whatever failed       *)
(* before it.                                                              *)
C10_ItemIndependence ==
    [][LoadItemStep =>
        /\ load'.pc = "loop"
        /\ journalist.db.files \subseteq journalist'.db.files
        /\ load.processed \subseteq load'.processed
        /\ journalist' = NewJournalist(journalist'.db)
        /\ (last'.args[2] = "ok" /\ Insertable) =>
              /\ last'.err = NoErr
              /\ Cardinality(journalist'.db.files)
                    = Cardinality(journalist.db.files) + 1]_vars

(* C10 witness: an item was registered after another item of the batch     *)
(* had failed or before it did, with two items registered in all.          *)
C10_Witness ==
    /\ last.op = "_load_datafile"
    /\ last.err = NoErr
    /\ Cardinality(load.processed) >= 2
    /\ Cardinality(load.attempted) > Cardinality(load.processed)

(* C11: already-registered items count as processed.  When registering an  *)
(* item raises FileExistsError the batch continues and the item is         *)
(* recorded in the batch output with the id of a file record that existed  *)
(* before, so that a batch of already-registered items does not fail.      *)
C11_ExistingCountsAsProcessed ==
    [][(LoadItemStep /\ last'.err = FileExistsError) =>
         /\ load'.pc = "loop"
         /\ \E id \in { f.id : f \in journalist.db.files } :
               <<last'.args[1], id>> \in load'.processed]_vars

(* A step that starts an ingestion batch.                                  *)
LoadStartStep == load.pc = "idle" /\ load'.pc # "idle"

(* C12: empty source set.  A batch whose gathering is empty fails at once  *)
(* with "Failed to gather data files", before the dataset is resolved and  *)
(* before any item is attempted: the committed registry is unchanged.      *)
C12_EmptySource ==
    [][(LoadStartStep /\ load'.datafiles = {}) =>
         /\ load'.pc = "raised"
         /\ load'.err = GatherFailed
         /\ load'.attempted = {}
         /\ journalist'.db = journalist.db]_vars

(* C12 witness: a batch with an empty gathering failed, for a dataset the  *)
(* registry does not hold.                                                 *)
C12_Witness ==
    /\ load.pc = "raised"
    /\ load.err = GatherFailed
    /\ load.datafiles = {}
    /\ DatasetsOf(journalist.db, <<load.cfg.domain, load.cfg.dataset_name>>) = {}

(* The dataset rows of store for the (domain, name) of the batch l.        *)
BatchDatasets(store, l) == DatasetsOf(store, <<l.cfg.domain, l.cfg.dataset_name>>)

(* C13: dataset resolution ordering.  A batch calls add_dataset once and   *)
(* not again: whenever an item has been attempted the call was made, it    *)
(* succeeded and its dataset is the committed row of the batch's (domain,  *)
(* name); items leave the datasets alone and every file the batch          *)
(* registers belongs to that dataset; a batch on an existing dataset with  *)
(* exists_ok = False ends with DatasetExist, and a batch whose add_dataset *)
(* failed attempts and registers no item.                                  *)
C13_ResolutionOrdering ==
    [][/\ load'.add_dataset_calls <= 1
       /\ (load'.attempted # {} \/ load'.pc \in {"loop", "returned"}) =>
             /\ load'.add_dataset_calls = 1
             /\ BatchDatasets(journalist'.db, load') = {load'.dataset_record}
             /\ \A f \in journalist'.db.files :
                   f.id \notin load'.files0 => f.dataset_id = load'.dataset_record.id
       /\ LoadItemStep => journalist'.db.datasets = journalist.db.datasets
       /\ (LoadStartStep /\ load'.datafiles # {} /\ ~load'.cfg.exists_ok
            /\ BatchDatasets(journalist.db, load') # {}) =>
             load'.pc = "raised" /\ load'.err = DatasetExist
       /\ (load'.pc = "raised" /\ load'.err \notin {GatherFailed, LoadFailed}) =>
             /\ load'.attempted = {}
             /\ { f.id : f \in journalist'.db.files } = load'.files0]_vars

(* C13 witness: a batch failed with DatasetExist on a registry that holds  *)
(* files, and registered nothing.                                          *)
C13_Witness ==
    /\ load.pc = "raised"
    /\ load.err = DatasetExist
    /\ load.files0 # {}
    /\ Registered = {}

(* C14: temporary file cleanup.  Once the processing of an item has ended, *)
(* by success or by a failure of the download, the inspection or the       *)
(* registration, the temporary file of a remote source does not exist.     *)
C14_TempFileCleanup ==
    \A datafile \in load.attempted : TmpFile(datafile) \notin load.tmpfiles

(* s has sub as a contiguous subsequence.                                  *)
Contains(s, sub) ==
    \E i \in 0..(Len(s) - Len(sub)) : SubSeq(s, i + 1, i + Len(sub)) = sub

(* The file satisfies every filter given in the retrieval request.         *)
SatisfiesFilters(store, cfg, file) ==
    /\ DatasetById(store, file.dataset_id).domain = cfg.domain
    /\ file.stage = cfg.stage
    /\ cfg.dataset_name # NoneValue =>
           DatasetById(store, file.dataset_id).name = cfg.dataset_name
    /\ cfg.mime # <<>> => Contains(MimeChars(file.mime_type), cfg.mime)
    /\ cfg.tags # <<>> =>
           \E tag \in store.tags :
               tag.id \in Range(file.tags) /\ tag.name \in Range(cfg.tags)

(* C15: filtered retrieval.  Every file returned by the retrieval query    *)
(* belongs to a dataset of the requested domain, has the requested stage   *)
(* and, for each filter that is given, has exactly the dataset name, a     *)
(* MIME type that contains the given substring, and at least one tag whose *)
(* name is in the tag list; and when the limit did not cut the result,     *)
(* every file that satisfies the filters is returned.                      *)
C15_FilteredRetrieval ==
    fetch.pc # "idle" =>
        /\ \A id \in fetch.file_records :
              SatisfiesFilters(journalist.session, fetch.cfg,
                               FileById(journalist.session, id))
        /\ Cardinality(fetch.rows) < fetch.cfg.limit =>
              \A file \in journalist.session.files :
                  SatisfiesFilters(journalist.session, fetch.cfg, file)
                      => file.id \in fetch.file_records

(* C16: empty result.  When the retrieval query returns no record the      *)
(* pipeline completes without an error, writes no export file and attempts *)
(* no download, whatever the export and dry-run options are.               *)
C16_EmptyResult ==
    (fetch.pc # "idle" /\ fetch.file_records = {}) =>
        /\ fetch.pc \in {"queried", "returned"}
        /\ fetch.err = NoErr
        /\ fetch.export = NoFile
        /\ fetch.attempted = {}

C16_Witness ==
    /\ fetch.pc = "returned"
    /\ fetch.file_records = {}
    /\ fetch.cfg.export
    /\ ~fetch.cfg.dry
    /\ journalist.db.files # {}

(* A step of fetch that enters the download block: os.makedirs for the     *)
(* target directory and then the downloads.                                *)
DownloadStep ==
    /\ fetch.pc \in {"queried", "exported"}
    /\ fetch'.pc = "raised" \/ fetch'.attempted # {}

(* C17: export precedes download.  In a run that exports and downloads,    *)
(* the export file is completely written (one entry for every content hash *)
(* among the retrieved records) before the download block is entered, and  *)
(* the download block leaves it in place also when it fails.               *)
C17_ExportPrecedesDownload ==
    [][(DownloadStep /\ fetch.cfg.export) =>
         /\ fetch.export.written
         /\ fetch.export.data \in
                export_records(journalist.session, fetch.file_records)
         /\ fetch'.export = fetch.export]_vars

C17_Witness ==
    /\ fetch.pc = "raised"
    /\ fetch.cfg.export
    /\ ~fetch.cfg.dry
    /\ fetch.export.written
    /\ Cardinality(fetch.file_records) = 2

(* C18: download failure aggregation.  A run that is not dry and retrieved *)
(* at least one record has, when it ends, attempted a download for every   *)
(* retrieved record; it ends with the batch-failed error exactly when no   *)
(* download succeeded, and returns normally when at least one did.         *)
C18_DownloadAggregation ==
    (fetch.pc \in {"returned", "raised"} /\ ~fetch.cfg.dry
        /\ fetch.file_records # {}) =>
        /\ fetch.attempted = fetch.file_records
        /\ fetch.pc = "raised" <=> fetch.downloaded = {}
        /\ fetch.pc = "raised" => fetch.err = DownloadFailed
        /\ fetch.pc = "returned" => fetch.err = NoErr

(* C19: export completeness.  An export file that was written holds        *)
(* exactly one record for every retrieved file, also when two retrieved    *)
(* files have the same content hash.                                       *)
C19_ExportCompleteness ==
    fetch.export.written =>
        /\ { d.id : d \in fetch.export.data } = fetch.file_records
        /\ Cardinality(fetch.export.data) = Cardinality(fetch.file_records)

(* C20: export gating.  When a run has ended, the export file exists if    *)
(* and only if export was requested and the query returned at least one    *)
(* record.                                                                 *)
C20_ExportGating ==
    fetch.pc \in {"returned", "raised"} =>
        (fetch.export.written <=>
            (fetch.cfg.export /\ fetch.file_records # {}))

(* The number of lookup modes supplied to get_file_record: the id, the     *)
(* content hash, and the triple (filename, dataset name, domain).          *)
NumModes(a) ==
    (IF a.file_id # NoId THEN 1 ELSE 0)
    + (IF a.sha256 # NoneValue THEN 1 ELSE 0)
    + (IF a.filename # <<>> /\ a.dataset_name # NoneValue /\ a.domain # NoneValue
       THEN 1 ELSE 0)

(* C21: get_file lookup mode.  get_file_record fails with the invalid-     *)
(* query error exactly when the number of lookup modes supplied is zero or *)
(* more than one; with exactly one mode it performs the lookup.            *)
C21_LookupMode ==
    last.op = "get_file_record" =>
        (last.err = ValueError("get_file_record requires")
            <=> NumModes(last.args[1]) # 1)

(* A call of add_tags2file on a usable session with nothing staged, for a  *)
(* file id that no file record has.                                        *)
TagUnknownFileStep ==
    /\ last'.op = "add_tags2file"
    /\ txn /\ ~journalist.inactive /\ journalist.pending = <<>>
    /\ last'.args[1] \notin { f.id : f \in journalist.session.files }

(* The (file id, tag id) pairs of the file_tags table of a store.          *)
FileTags(store) ==
    UNION { { <<f.id, f.tags[i]>> : i \in 1..Len(f.tags) } : f \in store.files }

(* C22: tag_file on an unknown file.  add_tags2file called with a file id  *)
(* that matches no file record fails with the not-found error and leaves   *)
(* the registry unchanged: no tag row is created for any of the given      *)
(* names and no association is added.                                      *)
C22_TagUnknownFile ==
    [][TagUnknownFileStep =>
         /\ last'.err = FileNotFoundError
         /\ journalist'.session.tags \subseteq journalist.session.tags
         /\ FileTags(journalist'.session) \subseteq FileTags(journalist.session)
         /\ journalist'.db = journalist.db]_vars

UniqueDatasets(store) ==
    \A d, e \in store.datasets :
        (d.domain = e.domain /\ d.name = e.name) => d = e

(* A call of create_dataset on a usable session for a (domain, name) that  *)
(* a dataset row already has.                                              *)
CreateExistingStep ==
    /\ last'.op = "create_dataset"
    /\ ~journalist.inactive
    /\ \E d \in journalist.session.datasets :
          d.domain = last'.args[1] /\ d.name = last'.args[2]

(* C23: dataset uniqueness.  In every reachable registry state no two      *)
(* dataset rows share the same (domain, name); create_dataset called for a *)
(* pair that already exists fails with the violation of unique_dataset and *)
(* leaves the set of dataset rows unchanged.                               *)
C23_DatasetUniqueness ==
    [][/\ UniqueDatasets(journalist'.db)
       /\ UniqueDatasets(journalist'.session)
       /\ CreateExistingStep =>
            /\ last'.err = IntegrityError("unique_dataset")
            /\ journalist'.db.datasets = journalist.db.datasets
            /\ journalist'.session.datasets = journalist.session.datasets]_vars

C23_Witness ==
    /\ last.op = "create_dataset"
    /\ last.err = IntegrityError("unique_dataset")
    /\ Cardinality(journalist.db.datasets) = 2
    /\ journalist.db.files # {}

(* A step that leaves a "with journalist.transaction()" block with an      *)
(* exception.                                                              *)
FailedTransactionStep == txn /\ ~txn' /\ last'.err # NoErr

(* C24: add_file stages within the caller's transaction.  A call of        *)
(* add_file_record commits nothing, the tags it creates included; when the *)
(* enclosing transaction fails, the committed registry is what it was when *)
(* the transaction was entered: no file row, no tag row and no file-tag    *)
(* association of the call is persisted.                                   *)
C24_StagedInTransaction ==
    [][/\ last'.op = "add_file_record" => journalist'.db = journalist.db
       /\ FailedTransactionStep => journalist'.db = snapshot]_vars

(* Inside a transaction add_file_record has staged a file that repeats a   *)
(* committed file of the dataset, with a tag it created: the tag is in the *)
(* session and not committed, and the commit of the transaction will fail. *)
C24_Witness ==
    /\ txn
    /\ last.op = "add_file_record"
    /\ Len(journalist.pending) = 1
    /\ journalist.pending[1].tags # <<>>
    /\ journalist.db.tags = {}
    /\ journalist.session.tags # {}
    /\ \E f \in journalist.db.files :
          /\ f.sha256 = journalist.pending[1].sha256
          /\ f.dataset_id = journalist.pending[1].dataset_id

(* The name is lower-case and has no leading or trailing whitespace.       *)
IsNormalized(name) ==
    /\ \A i \in 1..Len(name) : name[i] \notin {"A", "B", "T"}
    /\ name # <<>> => (name[1] # " " /\ name[Len(name)] # " ")

NormalizedTags(store) ==
    /\ \A t \in store.tags : IsNormalized(t.name)
    /\ \A t, u \in store.tags : t.name = u.name => t = u

(* A call of add_tag, on a usable session, with a case or whitespace       *)
(* variant of the name of the tag row existing.                            *)
AddExistingTagStep(existing) ==
    /\ last'.op = "add_tag"
    /\ ~journalist.inactive
    /\ existing \in journalist.session.tags
    /\ strip(lower(last'.args[1])) = existing.name

(* C25: tag normalization and uniqueness.  After any sequence of add_tag,  *)
(* add_file_record and add_tags2file calls every stored tag name is        *)
(* lower-case without leading or trailing whitespace and no two tag rows   *)
(* have the same name; add_tag called with a variant of an existing tag's  *)
(* name returns that tag and creates no row.                               *)
C25_TagNormalization ==
    [][/\ NormalizedTags(journalist'.session)
       /\ NormalizedTags(journalist'.db)
       /\ \A existing \in journalist.session.tags :
             AddExistingTagStep(existing) =>
                /\ last'.err = NoErr => last'.ret = existing.id
                /\ journalist'.session.tags \subseteq journalist.session.tags
                /\ journalist'.db.tags = journalist.db.tags]_vars

(* add_tag("A ") returned the older of two committed tags, named "a".      *)
C25_Witness ==
    /\ last.op = "add_tag"
    /\ last.err = NoErr
    /\ last.args[1] = <<"A", " ">>
    /\ last.ret = 1
    /\ \E t \in journalist.db.tags : t.id = 1 /\ t.name = <<"a">>
    /\ Cardinality(journalist.db.tags) = 2
    /\ Cardinality(journalist.session.tags) = 2

(* The datafile of this step has the bucket, prefix, stage, content hash,  *)
(* MIME type and filename of a registered file of another dataset, and no  *)
(* file of the batch's dataset has its content.                            *)
SameContentElsewhere ==
    /\ ~AlreadyRegistered
    /\ \E f \in journalist.db.files :
          /\ f.dataset_id # load.dataset_record.id
          /\ [f EXCEPT !.id = NoId, !.dataset_id = load.dataset_record.id,
                       !.s3uri = NoUri, !.tags = <<>>]
                 = Candidate(last'.args[1])

(* C26: same content in two datasets.  Registering a file with the bucket, *)
(* prefix, stage, content hash, MIME type and filename of a file of        *)
(* another dataset succeeds: a row for the batch's dataset is added, and   *)
(* the registration is not rejected by the uniqueness of the storage URI.  *)
C26_SameContentTwoDatasets ==
    [][(LoadItemStep /\ last'.args[2] = "ok" /\ SameContentElsewhere) =>
         /\ last'.err = NoErr
         /\ \E f \in journalist'.db.files \ journalist.db.files :
               f.dataset_id = load.dataset_record.id]_vars

(* The files that the filters of the request select.                       *)
MatchingFiles ==
    unique_entities(query_rows(journalist.session, fetch.cfg, fetch.backend))

(* C27: limit and distinctness.  The retrieval query returns exactly       *)
(* min(limit, number of distinct matching files) records, each a matching  *)
(* file, also when the tag filter has several names and a file carries     *)
(* more than one of them.                                                  *)
C27_LimitDistinct ==
    fetch.pc # "idle" =>
        /\ fetch.file_records \subseteq MatchingFiles
        /\ Cardinality(fetch.file_records) =
              IF Cardinality(MatchingFiles) < fetch.cfg.limit
              THEN Cardinality(MatchingFiles) ELSE fetch.cfg.limit

(* The ids of the file records of the dataset with the content hash of the *)
(* entry.                                                                  *)
RecordsOf(store, dataset_id, entry) ==
    { f.id : f \in { x \in store.files :
                       x.dataset_id = dataset_id /\ x.sha256 = entry.sha256 } }

(* C28: relate_data result on existing records.  relate_data does not fail *)
(* because an entry is already registered, and it returns one id per entry *)
(* of the data config, in entry order, each the id of the record of that   *)
(* entry in the dataset, for entries that were already registered too.     *)
C28_RelateExisting ==
    last.op = "relate_data" =>
        /\ last.err = NoErr
        /\ Len(last.ret) = Len(last.args[2])
        /\ \A i \in 1..Len(last.ret) :
              last.ret[i] \in RecordsOf(journalist.session, last.args[1],
                                        last.args[2][i])

(* The URI of the object stored under key in the bucket named by data_src. *)
ObjectUri(data_src, key) == S3Scheme \o split_s3uri(data_src)[1] \o <<"/">> \o key

(* The objects of the bucket listed under the prefix data_src names, and   *)
(* those of them the extension filter lets through.                        *)
ListedUnder(data_src, bucket) ==
    LET p == split_s3uri(data_src)[2]
        prefix == IF endswith(p, <<"/">>) THEN p ELSE p \o <<"/">>
    IN  { key \in bucket : startswith(key, prefix) }

PassesFilter(key, filters) ==
    filters = <<>> \/ \E e \in Range(filters) : endswith(lower(key), e)

(* C29: remote gathering yields existing, distinct sources.  When the data *)
(* source is an object-store prefix, every gathered source identifier is   *)
(* the URI of an object listed under that prefix, and different listed     *)
(* objects (also objects of different sub-prefixes with one base name)     *)
(* yield different identifiers: there are as many identifiers as listed    *)
(* objects that pass the filter.                                           *)
C29_RemoteGathering ==
    (last.op = "_gather_datafiles" /\ startswith(last.args[1], S3Scheme)) =>
        LET listed == ListedUnder(last.args[1], last.args[3]) IN
        /\ last.ret \subseteq { ObjectUri(last.args[1], key) : key \in listed }
        /\ Cardinality(last.ret)
             = Cardinality({ key \in listed : PassesFilter(key, last.args[2]) })

(* The file satisfies the filters of the request other than the tag filter. *)
SatisfiesOtherFilters(store, cfg, file) ==
    /\ DatasetById(store, file.dataset_id).domain = cfg.domain
    /\ file.stage = cfg.stage
    /\ cfg.dataset_name # NoneValue =>
           DatasetById(store, file.dataset_id).name = cfg.dataset_name
    /\ cfg.mime # <<>> => Contains(MimeChars(file.mime_type), cfg.mime)

(* The file carries a tag whose name is the lower-cased form of one of the *)
(* names.                                                                  *)
CarriesTag(store, file, names) ==
    \E tag \in store.tags :
        /\ tag.id \in Range(file.tags)
        /\ \E i \in 1..Len(names) : tag.name = lower(names[i])

(* The configuration of the request was rejected: fetch was not entered.   *)
RequestRejected == fetch.pc = "idle" /\ fetch.err # NoErr

(* C30: case-insensitive tag filter.  The tag names of a request are       *)
(* lower-cased before they are matched: when the limit did not cut the     *)
(* result, every file that satisfies the other filters and carries a tag   *)
(* whose name is the lower-cased form of a name of the request is          *)
(* returned.  A request without a tag filter (not given, None or empty) is *)
(* accepted, and when the limit did not cut the result every file that     *)
(* satisfies the other filters is returned.                                *)
C30_CaseInsensitiveTags ==
    /\ ~RequestRejected
    /\ (fetch.pc # "idle" /\ Cardinality(fetch.rows) < fetch.cfg.limit) =>
          \A file \in journalist.session.files :
              (/\ SatisfiesOtherFilters(journalist.session, fetch.cfg, file)
               /\ fetch.tags_arg.value # <<>> =>
                      CarriesTag(journalist.session, file, fetch.tags_arg.value))
                  => file.id \in fetch.file_records

====
